---- MODULE Spec2Model ----
(***************************************************************************)
(* A model of wgengine/packet (the IPv4 quick decoder, the Internet        *)
(* checksum and the ICMP builder) and of ipn/store/kubestore (the          *)
(* write-through state store kept in a Kubernetes Secret).                 *)
(*                                                                         *)
(* A byte buffer ([]byte) is a sequence of numbers 0..255; Go's zero-based *)
(* b[i] is B(b, i) and b[lo:hi] is Slice(b, lo, hi).  A uint32 IP address  *)
(* is kept as its four big-endian base-256 digits, and the uint32          *)
(* accumulator of ipChecksum as its two 16-bit halves, so that every       *)
(* quantity keeps the width it has in the program.                         *)
(***************************************************************************)
EXTENDS Integers, Sequences, FiniteSets, TLC

VARIABLES
    q,        \* the QDecode record that the Decode calls reuse
    pkt,      \* the buffer handed to the most recent call on q
    ret,      \* outcome of the most recent call on q
    q2,       \* a second QDecode record (decoding a second buffer)
    pkt2,     \* the buffer handed to Decode on q2
    ret2,     \* outcome of the Decode call on q2
    args,     \* the arguments of the GenICMP call
    out,      \* the packet GenICMP returned
    stage,    \* position in the GenICMP / Decode sequence
    buf,      \* the buffer the checksum is computed over
    ofs,      \* the offset k of the checksum field in buf
    step,     \* position in the zero / compute / store / verify sequence
    csum,     \* the last value ipChecksum returned
    secret,   \* the Kubernetes Secret on the API server
    canPatch, \* Store.canPatch
    memory,   \* Store.memory
    loaded,   \* what New loaded from the Secret (kept for reference)
    hist      \* the WriteState calls made so far, with their results

decVars  == <<q, pkt, ret>>
pairVars == <<q2, pkt2, ret2>>
genVars  == <<args, out, stage>>
sumVars  == <<buf, ofs, step, csum>>
kubeVars == <<secret, canPatch, memory, loaded, hist>>
vars     == <<q, pkt, ret, q2, pkt2, ret2, args, out, stage,
              buf, ofs, step, csum, secret, canPatch, memory, loaded, hist>>

----------------------------------------------------------------------------
(* Byte buffers *)

Nil == <<>>

B(b, i) == b[i + 1]

Slice(b, lo, hi) == SubSeq(b, lo + 1, hi)

Uint16(b, i) == B(b, i) * 256 + B(b, i + 1)

Uint32(b, i) == <<B(b, i), B(b, i + 1), B(b, i + 2), B(b, i + 3)>>

put16(v) == <<(v \div 256) % 256, v % 256>>

put32(ip) == ip

\* b with the bytes of w stored at offset i
Put(b, i, w) == [j \in 1..Len(b) |->
                    IF j > i /\ j <= i + Len(w) THEN w[j - i] ELSE b[j]]

----------------------------------------------------------------------------
(* ipChecksum *)

\* ac += w on a uint32 kept as [hi, lo], 0 <= w < 65536
Add32(ac, w) ==
    [hi |-> (ac.hi + ((ac.lo + w) \div 65536)) % 65536,
     lo |-> (ac.lo + w) % 65536]

RECURSIVE SumWords(_, _, _, _)
SumWords(b, i, n, ac) ==
    IF n >= 2 THEN SumWords(b, i + 2, n - 2, Add32(ac, Uint16(b, i)))
    ELSE IF n = 1 THEN Add32(ac, B(b, i) * 256)
    ELSE ac

\* for (ac >> 16) > 0 { ac = (ac >> 16) + (ac & 0xffff) }
RECURSIVE FoldCarries(_)
FoldCarries(ac) ==
    IF ac.hi > 0
    THEN FoldCarries([hi |-> (ac.hi + ac.lo) \div 65536,
                      lo |-> (ac.hi + ac.lo) % 65536])
    ELSE ac

\* a single fold: `if` where the code has `for`
FoldOnce(ac) ==
    IF ac.hi > 0
    THEN [hi |-> (ac.hi + ac.lo) \div 65536, lo |-> (ac.hi + ac.lo) % 65536]
    ELSE ac

\* ipChecksum folding the carries only once
ipChecksumFoldOnce(b) ==
    65535 - FoldOnce(SumWords(b, 0, Len(b), [hi |-> 0, lo |-> 0])).lo

ipChecksum(b) ==
    65535 - FoldCarries(SumWords(b, 0, Len(b), [hi |-> 0, lo |-> 0])).lo

----------------------------------------------------------------------------
(* GenICMP *)

\* GenICMP with the two addresses stored in each other's place
GenICMPSwapped(srcIP, dstIP, ipid, icmpType, icmpCode, payload) ==
    IF Len(payload) < 4 THEN Nil
    ELSE IF Len(payload) > 65535 - 24 THEN Nil
    ELSE
    LET sz   == 24 + Len(payload)
        out0 == <<69, 0>> \o put16(sz % 65536) \o put16(ipid) \o put16(0)
                 \o <<64, 1, 0, 0>> \o put32(dstIP) \o put32(srcIP)
                 \o <<icmpType, icmpCode, 0, 0>> \o payload
        out1 == Put(out0, 10, put16(ipChecksum(Slice(out0, 0, 20))))
    IN  Put(out1, 22, put16(ipChecksum(out1)))

GenICMP(srcIP, dstIP, ipid, icmpType, icmpCode, payload) ==
    IF Len(payload) < 4 THEN Nil
    ELSE IF Len(payload) > 65535 - 24 THEN Nil
    ELSE
    LET sz   == 24 + Len(payload)
        out0 == <<69, 0>> \o put16(sz % 65536) \o put16(ipid) \o put16(0)
                 \o <<64, 1, 0, 0>> \o put32(srcIP) \o put32(dstIP)
                 \o <<icmpType, icmpCode, 0, 0>> \o payload
        out1 == Put(out0, 10, put16(ipChecksum(Slice(out0, 0, 20))))
    IN  Put(out1, 22, put16(ipChecksum(out1)))

----------------------------------------------------------------------------
(* QDecode *)

minFrag == 80

ICMPEchoReply == 0

ICMPEchoRequest == 8

ZeroIP == <<0, 0, 0, 0>>

\* the zero value of the QDecode struct
ZeroQ == [b |-> Nil, subofs |-> 0, IPProto |-> "Junk", SrcIP |-> ZeroIP,
          DstIP |-> ZeroIP, SrcPort |-> 0, DstPort |-> 0, TCPFlags |-> 0]

IPProtos == {"Junk", "Fragment", "ICMP", "UDP", "TCP"}

\* a call returned normally / panicked, leaving the record as qq
Returned(qq) == [q |-> qq, panic |-> FALSE]

Panicked(qq) == [q |-> qq, panic |-> TRUE]

JunkOf(qq) == Returned([qq EXCEPT !.IPProto = "Junk"])

\* the part of Decode after `sub := b[q.subofs:]`
DecodeSub(q1, b, sub) ==
    LET fragFlags == Uint16(b, 6)
        moreFrags == ((fragFlags \div 32) % 2) # 0      \* fragFlags & 0x20
        fragOfs   == fragFlags % 8192                   \* fragFlags & 0x1FFF
        proto     == B(b, 9)
    IN
    IF fragOfs = 0 THEN
        IF moreFrags /\ Len(sub) < minFrag THEN JunkOf(q1)
        ELSE IF proto = 1 THEN
            IF Len(sub) < 8 THEN JunkOf(q1)
            ELSE Returned([q1 EXCEPT !.IPProto = "ICMP", !.SrcPort = 0,
                                     !.DstPort = 0, !.b = b])
        ELSE IF proto = 6 THEN
            IF Len(sub) < 20 THEN JunkOf(q1)
            ELSE Returned([q1 EXCEPT !.IPProto = "TCP",
                                     !.SrcPort = Uint16(sub, 0),
                                     !.DstPort = Uint16(sub, 2),
                                     !.TCPFlags = B(sub, 13) % 64,
                                     !.b = b])
        ELSE IF proto = 17 THEN
            IF Len(sub) < 8 THEN JunkOf(q1)
            ELSE Returned([q1 EXCEPT !.IPProto = "UDP",
                                     !.SrcPort = Uint16(sub, 0),
                                     !.DstPort = Uint16(sub, 2),
                                     !.b = b])
        ELSE JunkOf(q1)
    ELSE
        IF fragOfs < minFrag THEN JunkOf(q1)
        ELSE Returned([q1 EXCEPT !.IPProto = "Fragment"])

\* q.Decode(b): the record after the call, and whether the call panicked
Decode(qq, b) ==
    LET q0 == [qq EXCEPT !.b = Nil] IN
    IF Len(b) < 20 THEN JunkOf(q0)
    ELSE IF (B(b, 0) \div 16) # 4 THEN JunkOf(q0)
    ELSE IF Len(b) < Uint16(b, 2) THEN JunkOf(q0)
    ELSE
    LET q1 == [q0 EXCEPT !.SrcIP = Uint32(b, 12),
                         !.DstIP = Uint32(b, 16),
                         !.subofs = ((B(b, 0) % 16) * 4) % 256]
    IN  IF q1.subofs > Len(b)
        THEN Panicked(q1)                   \* b[q.subofs:] out of range
        ELSE DecodeSub(q1, b, Slice(b, q1.subofs, Len(b)))

IsEchoRequest(qq) ==
    IF qq.IPProto = "ICMP" /\ Len(qq.b) >= qq.subofs + 8
    THEN B(qq.b, qq.subofs) = ICMPEchoRequest /\ B(qq.b, qq.subofs + 1) = 0
    ELSE FALSE

\* q.Trim(): q.b[:n]; a nil q.b has no bytes 2..3
Trim(qq) == Slice(qq.b, 0, Uint16(qq.b, 2))

\* q.EchoRespond(): [panic, out].  A slice expression panics when its bounds
\* leave the buffer (the buffer's capacity is taken to be its length).
EchoRespond(qq) ==
    IF qq.subofs + 4 + 2 > Len(qq.b)
    THEN [panic |-> TRUE, out |-> Nil]        \* q.Sub(4, 2) out of range
    ELSE
    LET icmpid == Uint16(qq.b, qq.subofs + 4)
        b      == Trim(qq)
    IN  IF qq.subofs + 4 > Len(b)
        THEN [panic |-> TRUE, out |-> Nil]    \* b[q.subofs+4:] out of range
        ELSE [panic |-> FALSE,
              out   |-> GenICMP(qq.DstIP, qq.SrcIP, icmpid, ICMPEchoReply, 0,
                                Slice(b, qq.subofs + 4, Len(b)))]

----------------------------------------------------------------------------
(* Inputs of the decoder *)

SrcAddr == <<10, 0, 0, 1>>

DstAddr == <<10, 0, 0, 2>>

\* an ICMP echo request: type 8, code 0, checksum, identifier 42, sequence 1
EchoPre == <<8, 0, 0, 0, 0, 42, 0, 1, 7, 7>>

\* a TCP (or UDP) header: ports 5000 > 53, flags SYN|ACK at byte 13
TcpPre == <<19, 136, 0, 53, 0, 0, 0, 0, 0, 0, 0, 0, 80, 18>>

\* len bytes: those of pre, then zeroes
Pad(pre, len) == [i \in 1..len |-> IF i <= Len(pre) THEN pre[i] ELSE 0]

\* a buffer of 20 + tl bytes: an IPv4 header with first byte vhl, total
\* length n, fragmentation word frag and protocol proto, then tl more bytes
Pkt(vhl, n, frag, proto, tl) ==
    <<vhl, 0>> \o put16(n) \o <<0, 0>> \o put16(frag) \o <<64, proto, 0, 0>>
    \o SrcAddr \o DstAddr
    \o Pad(IF proto = 1 THEN EchoPre ELSE TcpPre, tl)

ProtoVals == {1, 6, 17, 47}

TailLens == {0, 8, 20, 60}

\* fragmentation words with a non-zero offset, and 0x2000 (more fragments)
FragVals == {6, 7, 10, 79, 80, 8192}

\* unfragmented packets, whole or cut short or with bytes after their end
PlainPackets ==
    { Pkt(69, n, 0, proto, tl) :
        proto \in ProtoVals, tl \in TailLens, n \in {20, 24, 28, 40, 80, 81} }

\* fragments
FragPackets ==
    { Pkt(69, 20 + tl, frag, proto, tl) :
        frag \in FragVals, proto \in ProtoVals, tl \in {8, 20, 60} }

\* other values of the version and header-length nibbles (0x46, 0x4F, 0x65)
NibblePackets ==
    { Pkt(vhl, n, frag, proto, tl) :
        vhl \in {70, 79, 101}, n \in {24, 28, 80}, frag \in {0, 80},
        proto \in {1, 6}, tl \in TailLens }

Packets == PlainPackets \cup FragPackets \cup NibblePackets \cup {<<69, 0, 0>>}

----------------------------------------------------------------------------
(* The decoder: calls on one reused record *)

NoCall == [op |-> "none", panic |-> FALSE, out |-> Nil]

DecIdle  == q = ZeroQ /\ pkt = Nil /\ ret = NoCall

PairIdle == q2 = ZeroQ /\ pkt2 = Nil /\ ret2 = NoCall

GenIdle  == args = <<>> /\ out = Nil /\ stage = "idle"

SumIdle  == buf = Nil /\ ofs = 0 /\ step = "idle" /\ csum = 0

KubeIdle == secret = <<>> /\ canPatch = FALSE /\ memory = <<>>
            /\ loaded = <<>> /\ hist = <<>>

\* a panic that nothing recovers ends the program
Alive == ~ret.panic

DecodeCall ==
    /\ Alive
    /\ \E b \in Packets :
        LET r == Decode(q, b) IN
        /\ q' = r.q
        /\ pkt' = b
        /\ ret' = [op |-> "Decode", panic |-> r.panic, out |-> Nil]
    /\ UNCHANGED <<pairVars, genVars, sumVars, kubeVars>>

EchoRespondCall ==
    /\ Alive
    /\ LET r == EchoRespond(q) IN
        ret' = [op |-> "EchoRespond", panic |-> r.panic, out |-> r.out]
    /\ UNCHANGED <<q, pkt, pairVars, genVars, sumVars, kubeVars>>

Init == DecIdle /\ PairIdle /\ GenIdle /\ SumIdle /\ KubeIdle

Next == DecodeCall \/ EchoRespondCall

Spec == Init /\ [][Next]_vars

----------------------------------------------------------------------------
(* Two buffers that agree up to their declared total length, each decoded  *)
(* into a fresh record                                                     *)

\* b passes Decode's length, version and total-length checks
PassesChecks(b) ==
    Len(b) >= 20 /\ (B(b, 0) \div 16) = 4 /\ Len(b) >= Uint16(b, 2)

\* b1 and b2 carry the same total length n, hold at least n bytes and agree
\* on their first n bytes
AgreeToDeclared(b1, b2) ==
    /\ Len(b1) >= 4 /\ Len(b2) >= 4
    /\ Uint16(b1, 2) = Uint16(b2, 2)
    /\ Len(b1) >= Uint16(b1, 2) /\ Len(b2) >= Uint16(b1, 2)
    /\ Slice(b1, 0, Uint16(b1, 2)) = Slice(b2, 0, Uint16(b1, 2))

InitPair ==
    /\ pkt \in { b \in Packets : PassesChecks(b) }
    /\ pkt2 \in { b \in Packets \cup {Slice(pkt, 0, Uint16(pkt, 2))} :
                    AgreeToDeclared(pkt, b) }
    /\ q = ZeroQ /\ ret = NoCall
    /\ q2 = ZeroQ /\ ret2 = NoCall
    /\ GenIdle /\ SumIdle /\ KubeIdle

DecodeFirst ==
    /\ ret.op = "none"
    /\ LET r == Decode(q, pkt) IN
        /\ q' = r.q
        /\ ret' = [op |-> "Decode", panic |-> r.panic, out |-> Nil]
    /\ UNCHANGED <<pkt, pairVars, genVars, sumVars, kubeVars>>

DecodeSecond ==
    /\ ret2.op = "none"
    /\ LET r == Decode(q2, pkt2) IN
        /\ q2' = r.q
        /\ ret2' = [op |-> "Decode", panic |-> r.panic, out |-> Nil]
    /\ UNCHANGED <<pkt2, decVars, genVars, sumVars, kubeVars>>

NextPair == DecodeFirst \/ DecodeSecond

SpecPair == InitPair /\ [][NextPair]_vars

----------------------------------------------------------------------------
(* GenICMP, and Decode of the packet it returns *)

MaxPayload == 5

PayloadBytes == {0, 255}

Payloads == UNION { [1..n -> PayloadBytes] : n \in 3..MaxPayload }

GenArgs ==
    [srcIP : {<<1, 2, 3, 4>>, <<0, 0, 0, 0>>},
     dstIP : {<<5, 6, 7, 8>>, <<0, 0, 0, 0>>},
     ipid : {0, 42},
     icmpType : {0, 3, 8},
     icmpCode : {0, 1},
     payload : Payloads]

\* a record left behind by the decode of a TCP packet
UsedQ == Decode(ZeroQ, Pkt(69, 40, 0, 6, 20)).q

InitGen ==
    /\ args \in GenArgs
    /\ out = Nil /\ stage = "start"
    /\ q \in {ZeroQ, UsedQ} /\ pkt = Nil /\ ret = NoCall
    /\ PairIdle /\ SumIdle /\ KubeIdle

GenICMPCall ==
    /\ stage = "start"
    /\ out' = GenICMP(args.srcIP, args.dstIP, args.ipid, args.icmpType,
                      args.icmpCode, args.payload)
    /\ stage' = "built"
    /\ UNCHANGED <<args, decVars, pairVars, sumVars, kubeVars>>

DecodeBuilt ==
    /\ stage = "built"
    /\ out # Nil
    /\ LET r == Decode(q, out) IN
        /\ q' = r.q
        /\ pkt' = out
        /\ ret' = [op |-> "Decode", panic |-> r.panic, out |-> Nil]
    /\ stage' = "decoded"
    /\ UNCHANGED <<args, out, pairVars, sumVars, kubeVars>>

NextGen == GenICMPCall \/ DecodeBuilt

SpecGen == InitGen /\ [][NextGen]_vars

----------------------------------------------------------------------------
(* ipChecksum: storing the checksum of a buffer in the buffer *)

MaxLen == 8

SumBytes == {0, 1, 255}

SumBuffers == UNION { [1..n -> SumBytes] : n \in 2..MaxLen }

InitSum ==
    /\ buf \in SumBuffers
    /\ ofs \in { k \in 0..(Len(buf) - 2) : k % 2 = 0 }
    /\ step = "start" /\ csum = 0
    /\ DecIdle /\ PairIdle /\ GenIdle /\ KubeIdle

ZeroField ==
    /\ step = "start"
    /\ buf' = Put(buf, ofs, <<0, 0>>)
    /\ step' = "zeroed"
    /\ UNCHANGED <<ofs, csum, decVars, pairVars, genVars, kubeVars>>

ComputeSum ==
    /\ step = "zeroed"
    /\ csum' = ipChecksum(buf)
    /\ step' = "computed"
    /\ UNCHANGED <<buf, ofs, decVars, pairVars, genVars, kubeVars>>

StoreSum ==
    /\ step = "computed"
    /\ buf' = Put(buf, ofs, put16(csum))
    /\ step' = "stored"
    /\ UNCHANGED <<ofs, csum, decVars, pairVars, genVars, kubeVars>>

VerifySum ==
    /\ step = "stored"
    /\ csum' = ipChecksum(buf)
    /\ step' = "verified"
    /\ UNCHANGED <<buf, ofs, decVars, pairVars, genVars, kubeVars>>

NextSum == ZeroField \/ ComputeSum \/ StoreSum \/ VerifySum

SpecSum == InitSum /\ [][NextSum]_vars

----------------------------------------------------------------------------
(* Properties of the decoder *)

\* fields of the IPv4 header of b as the specification of the decoder reads them
HdrLenOf(b) == (B(b, 0) % 16) * 4

FragOfsOf(b) == Uint16(b, 6) % 8192

MoreFragsOf(b) == (Uint16(b, 6) \div 8192) % 2 = 1      \* bit 0x2000

\* C1: Decode never panics: every call returns normally, with IPProto one of
\* Junk, Fragment, ICMP, UDP, TCP; slicing b at the sub-header offset is
\* never out of range.
C1_DecodeNeverPanics ==
    ret.op = "Decode" => (~ret.panic /\ q.IPProto \in IPProtos)

\* C2: a buffer that passes the checks, has fragment offset 0, the
\* more-fragments flag (0x2000) set and fewer than 60 bytes after the IP
\* header is Junk, whatever its protocol byte.
C2_ShortFirstFragmentIsJunk ==
    ( /\ ret.op = "Decode" /\ ~ret.panic
      /\ PassesChecks(pkt)
      /\ FragOfsOf(pkt) = 0
      /\ MoreFragsOf(pkt)
      /\ Len(pkt) - HdrLenOf(pkt) < 60 )
    => q.IPProto = "Junk"

\* C3: a buffer that passes the checks and has a non-zero fragment offset f
\* is Junk when f < 7 and Fragment when f >= 7.
C3_FragmentThreshold ==
    ( /\ ret.op = "Decode" /\ ~ret.panic
      /\ PassesChecks(pkt)
      /\ FragOfsOf(pkt) # 0 )
    => /\ FragOfsOf(pkt) < 7 => q.IPProto = "Junk"
       /\ FragOfsOf(pkt) >= 7 => q.IPProto = "Fragment"

\* C5: whenever the record's IPProto is Fragment, its SrcPort, DstPort and
\* TCPFlags are zero, after any sequence of Decode calls on the record.
C5_FragmentHasZeroPorts ==
    q.IPProto = "Fragment" =>
        (q.SrcPort = 0 /\ q.DstPort = 0 /\ q.TCPFlags = 0)

\* the reply EchoRespond owes to the echo request held in qq
IsEchoReplyTo(o, qq) ==
    /\ Len(o) >= 28
    /\ B(o, 0) \div 16 = 4 /\ B(o, 9) = 1
    /\ Uint32(o, 12) = qq.DstIP
    /\ Uint32(o, 16) = qq.SrcIP
    /\ B(o, 20) = 0 /\ B(o, 21) = 0
    /\ Uint16(o, 24) = Uint16(qq.b, qq.subofs + 4)
    /\ Slice(o, 24, Len(o)) = Slice(qq.b, qq.subofs + 4, Uint16(qq.b, 2))

\* C6: for every record for which IsEchoRequest is true, EchoRespond returns
\* (no panic, no nil) an IPv4 ICMP packet from DstIP to SrcIP with type 0,
\* code 0, the request's identifier and the request's bytes from sub-header
\* offset + 4 up to its declared total length.
C6_EchoRespondReplies ==
    (ret.op = "EchoRespond" /\ IsEchoRequest(q)) =>
        (~ret.panic /\ ret.out # Nil /\ IsEchoReplyTo(ret.out, q))

\* C4: two buffers that agree up to their common declared total length get
\* the same protocol tag, addresses, ports and TCP flags.
C4_NoReadPastDeclaredLength ==
    ( /\ ret.op = "Decode" /\ ret2.op = "Decode"
      /\ ~ret.panic /\ ~ret2.panic
      /\ AgreeToDeclared(pkt, pkt2) )
    => /\ q.IPProto = q2.IPProto
       /\ q.IPProto # "Junk" =>
            /\ q.SrcIP = q2.SrcIP /\ q.DstIP = q2.DstIP
            /\ q.SrcPort = q2.SrcPort /\ q.DstPort = q2.DstPort
            /\ q.TCPFlags = q2.TCPFlags

----------------------------------------------------------------------------
(* Properties of GenICMP *)

\* the ICMP message of a built packet, and the same with its checksum zeroed
IcmpOf(o) == Slice(o, 20, Len(o))

\* C7: the value stored at bytes 22-23 of a packet GenICMP returns is the
\* Internet checksum of bytes 20..end alone (checksum field zeroed), so that
\* ipChecksum over output[20:] is 0.
C7_IcmpChecksumRange ==
    (stage \in {"built", "decoded"} /\ out # Nil) =>
        /\ Uint16(out, 22) = ipChecksum(Put(IcmpOf(out), 2, <<0, 0>>))
        /\ ipChecksum(IcmpOf(out)) = 0

\* C8: Decode of a packet GenICMP returned yields ICMP, the addresses given
\* to GenICMP and zero ports, and IsEchoRequest exactly when the type is 8
\* and the code is 0.
C8_BuildDecodeRoundTrip ==
    stage = "decoded" =>
        /\ ~ret.panic
        /\ q.IPProto = "ICMP"
        /\ q.SrcIP = args.srcIP /\ q.DstIP = args.dstIP
        /\ q.SrcPort = 0 /\ q.DstPort = 0
        /\ IsEchoRequest(q) <=> (args.icmpType = 8 /\ args.icmpCode = 0)

\* an echo request between two different addresses was built and decoded
\* into a record that held ports before
C8_Witness ==
    /\ stage = "decoded"
    /\ args.icmpType = 8 /\ args.icmpCode = 0
    /\ args.srcIP # args.dstIP
    /\ IsEchoRequest(q)
    /\ q.TCPFlags # 0

----------------------------------------------------------------------------
(* Properties of ipChecksum *)

\* C9: with the two bytes at an even offset k zeroed, c = ipChecksum(b)
\* computed and c stored big-endian at k, ipChecksum of the buffer is 0.
C9_ChecksumSelfVerifies == step = "verified" => csum = 0

\* a buffer of odd length whose sum carries above bit 16 was verified
C9_Witness ==
    /\ step = "verified"
    /\ Len(buf) % 2 = 1
    /\ SumWords(buf, 0, Len(buf), [hi |-> 0, lo |-> 0]).hi > 0
    /\ Uint16(buf, ofs) # 0

----------------------------------------------------------------------------
(* kubestore.Store *)

\* state keys are strings of runes: 'a' = 97, '/' = 47, '_' = 95
Ids == {<<97>>, <<47>>, <<95>>}

Vals == {<<1>>, <<2>>}

MaxWrites == 3

sanitizeKey(k) ==
    [i \in 1..Len(k) |->
        IF \/ (k[i] >= 97 /\ k[i] <= 122)      \* 'a'..'z'
           \/ (k[i] >= 65 /\ k[i] <= 90)       \* 'A'..'Z'
           \/ (k[i] >= 48 /\ k[i] <= 57)       \* '0'..'9'
           \/ k[i] = 45 \/ k[i] = 95 \/ k[i] = 46
        THEN k[i] ELSE 95]

\* map[string][]byte
EmptyMap == [k \in {} |-> Nil]

MapPut(m, k, v) == [x \in DOMAIN m \cup {k} |-> IF x = k THEN v ELSE m[x]]

\* the deferred function of WriteState, writing whatever the result was
WriteMemoryAlways(mem, id, bs, err) == MapPut(mem, sanitizeKey(id), bs)

\* the deferred function of WriteState: memory after the call returned err
WriteMemory(mem, id, bs, err) ==
    IF err = "nil" THEN MapPut(mem, sanitizeKey(id), bs) ELSE mem

\* s.memory.ReadState(sanitizeKey(id))
ReadState(mem, id) ==
    IF sanitizeKey(id) \in DOMAIN mem
    THEN [bs |-> mem[sanitizeKey(id)], err |-> "nil"]
    ELSE [bs |-> Nil, err |-> "ErrStateNotExist"]

\* the Secret as New may find it: absent, blank, or holding state
NoSecret == [exists |-> FALSE, data |-> EmptyMap]

InitKube ==
    /\ secret \in {NoSecret,
                   [exists |-> TRUE, data |-> EmptyMap],
                   [exists |-> TRUE, data |-> MapPut(EmptyMap, <<95>>, <<9>>)]}
    /\ canPatch \in BOOLEAN
    /\ memory = secret.data          \* loadState: LoadFromMap(secret.Data)
    /\ loaded = secret.data
    /\ hist = <<>>
    /\ DecIdle /\ PairIdle /\ GenIdle /\ SumIdle

\* the result of WriteState(id, bs) and the Secret after it, when GetSecret
\* answers get and the call that changes the Secret succeeds iff apiOK
WriteStateResult(id, bs, get, apiOK) ==
    LET key     == sanitizeKey(id)
        written == [exists |-> TRUE, data |-> MapPut(secret.data, key, bs)]
        failed  == [err |-> "error", secret |-> secret]
    IN
    IF get = "error" THEN failed
    ELSE IF get = "notfound" THEN                           \* CreateSecret
        IF apiOK
        THEN [err |-> "nil",
              secret |-> [exists |-> TRUE, data |-> MapPut(EmptyMap, key, bs)]]
        ELSE failed
    ELSE IF canPatch THEN                                   \* JSONPatchSecret
        IF apiOK THEN [err |-> "nil", secret |-> written] ELSE failed
    ELSE                                                    \* UpdateSecret
        IF apiOK THEN [err |-> "nil", secret |-> written] ELSE failed

WriteState ==
    /\ Len(hist) < MaxWrites
    /\ \E id \in Ids, bs \in Vals, apiOK \in BOOLEAN,
          get \in (IF secret.exists THEN {"ok", "error"}
                                    ELSE {"notfound", "error"}) :
        LET r == WriteStateResult(id, bs, get, apiOK) IN
        /\ secret' = r.secret
        /\ memory' = WriteMemory(memory, id, bs, r.err)
        /\ hist' = Append(hist, [id |-> id, bs |-> bs, err |-> r.err])
    /\ UNCHANGED <<canPatch, loaded, decVars, pairVars, genVars, sumVars>>

NextKube == WriteState

SpecKube == InitKube /\ [][NextKube]_vars

\* the WriteState calls that returned nil for the sanitized key of id
WritesTo(id) ==
    { i \in 1..Len(hist) :
        hist[i].err = "nil" /\ sanitizeKey(hist[i].id) = sanitizeKey(id) }

Last(S) == CHOOSE i \in S : \A j \in S : j <= i

\* C10: ReadState(id) returns the bytes of the most recent WriteState for the
\* same sanitized key that returned nil, or else the value loaded from the
\* Secret at construction, or else a not-exist error; a WriteState that
\* returns an error leaves the in-memory state unchanged.
C10_WriteThrough ==
    \A id \in Ids :
        ReadState(memory, id) =
            IF WritesTo(id) # {}
            THEN [bs |-> hist[Last(WritesTo(id))].bs, err |-> "nil"]
            ELSE IF sanitizeKey(id) \in DOMAIN loaded
            THEN [bs |-> loaded[sanitizeKey(id)], err |-> "nil"]
            ELSE [bs |-> Nil, err |-> "ErrStateNotExist"]

\* a write under '/' that succeeded, then a failed write under '_' (the same
\* sanitized key) with other bytes, on a store that loaded state
C10_Witness ==
    /\ Len(hist) >= 2
    /\ hist[Len(hist)].err # "nil"
    /\ hist[Len(hist)].id = <<95>>
    /\ hist[Len(hist) - 1].err = "nil"
    /\ hist[Len(hist) - 1].id = <<47>>
    /\ hist[Len(hist)].bs # hist[Len(hist) - 1].bs
    /\ <<95>> \in DOMAIN loaded
    /\ ReadState(memory, <<47>>).bs = hist[Len(hist) - 1].bs

====
